---------------------------- MODULE Spec2Model ----------------------------
(***************************************************************************)
(* State-machine model of the ChowRNN module (src/src/ChowRNN/ChowRNN.cpp): *)
(* a Dense(4) -> Tanh(4) -> GRU(4) -> Dense(1) network run once per sample,  *)
(* with weight randomisation, an instability guard, a DC blocker, a makeup  *)
(* gain, and JSON save / load of the three weight-bearing layers.           *)
(*                                                                         *)
(* 32-bit floats are modelled as fixed-point numbers with Unit steps per    *)
(* 1.0, saturating to +infinity / -infinity beyond FltMax, plus NaN, with   *)
(* the IEEE rules for infinities and NaN.                                   *)
(***************************************************************************)
EXTENDS Integers, Sequences, FiniteSets, TLC

\* ------------------------------------------------------------------ bounds
\* Largest finite float magnitude of the model (FLT_MAX), in fixed-point steps.
FltMax == 8
\* Number of states of the randomiser's generator.
RngMod == 3
\* Number of operations (process, reset, save, load) explored in one run.
MaxOps == 3

\* --------------------------------------------------------------- constants
\* Network width (enum NDims).
NDims == 4
\* Number of input ports (enum NUM_INPUTS).
NUM_INPUTS == 4
\* Fixed-point steps per 1.0f.
Unit == 2

\* ------------------------------------------------------------------ floats
PInf == FltMax + 1
NInf == 0 - (FltMax + 1)
NaN == FltMax + 2

Float == (NInf .. PInf) \cup {NaN}

IsNan(x) == x = NaN
IsInf(x) == x = PInf \/ x = NInf
IsFinite(x) == ~IsNan(x) /\ ~IsInf(x)

\* An exact integer result rounded into the float range (overflow gives infinity).
Rnd(n) == IF n > FltMax THEN PInf ELSE IF n < 0 - FltMax THEN NInf ELSE n

Sgn(x) == IF x > 0 THEN 1 ELSE IF x < 0 THEN 0 - 1 ELSE 0
Abs(x) == IF x < 0 THEN 0 - x ELSE x
\* Integer division truncating towards zero.
Quot(n, d) == Sgn(n) * Sgn(d) * (Abs(n) \div Abs(d))

FNeg(a) == IF IsNan(a) THEN NaN ELSE 0 - a

FAdd(a, b) ==
    IF IsNan(a) \/ IsNan(b) THEN NaN
    ELSE IF IsInf(a) /\ IsInf(b) THEN (IF a = b THEN a ELSE NaN)
    ELSE IF IsInf(a) THEN a
    ELSE IF IsInf(b) THEN b
    ELSE Rnd(a + b)

FSub(a, b) == FAdd(a, FNeg(b))

FMul(a, b) ==
    IF IsNan(a) \/ IsNan(b) THEN NaN
    ELSE IF IsInf(a) \/ IsInf(b)
         THEN (IF a = 0 \/ b = 0 THEN NaN
               ELSE IF Sgn(a) * Sgn(b) > 0 THEN PInf ELSE NInf)
    ELSE Rnd(Quot(a * b, Unit))

FDiv(a, b) ==
    IF IsNan(a) \/ IsNan(b) THEN NaN
    ELSE IF IsInf(a) THEN (IF IsInf(b) THEN NaN
                           ELSE IF Sgn(a) * (IF b < 0 THEN 0 - 1 ELSE 1) > 0
                                THEN PInf ELSE NInf)
    ELSE IF IsInf(b) THEN 0
    ELSE IF b = 0 THEN (IF a = 0 THEN NaN ELSE IF a > 0 THEN PInf ELSE NInf)
    ELSE Rnd(Quot(a * Unit, b))

\* tanh, saturating at +-1.0
Tanh(x) ==
    IF IsNan(x) THEN NaN
    ELSE IF x >= Unit THEN Unit
    ELSE IF x <= 0 - Unit THEN 0 - Unit
    ELSE x

\* logistic sigmoid, with values 0, 0.5 and 1.0
Sigmoid(x) ==
    IF IsNan(x) THEN NaN
    ELSE IF x >= Unit THEN Unit
    ELSE IF x <= 0 - Unit THEN 0
    ELSE Unit \div 2

\* ------------------------------------------------------- vectors, matrices
\* A function over 1 .. n as an explicit tuple of its n values.
Tup(f, n) == SubSeq(f, 1, n)
FillVec(n, v) == Tup([i \in 1 .. n |-> v], n)
ZeroVec(n) == FillVec(n, 0)
FillMat(r, c, v) == Tup([i \in 1 .. r |-> FillVec(c, v)], r)

\* The only element of a one-element set. Only({e(v) : v \in {a}}) is e(a)
\* with a evaluated once and its value named v.
Only(S) == CHOOSE v \in S : TRUE

RECURSIVE DotFrom(_, _, _, _)
\* acc + w[k]*x[k] + ... + w[n]*x[n], summed left to right
DotFrom(w, x, k, acc) ==
    IF k > Len(w) THEN acc
    ELSE DotFrom(w, x, k + 1, FAdd(acc, FMul(w[k], x[k])))

Dot(w, x) == DotFrom(w, x, 1, 0)
MatVec(M, x) == Only({Tup([i \in 1 .. Len(Mv) |-> Dot(Mv[i], xv)], Len(Mv)) : Mv \in {M}, xv \in {x}})
VAdd(a, b) == Only({Tup([i \in 1 .. Len(av) |-> FAdd(av[i], bv[i])], Len(av)) : av \in {a}, bv \in {b}})
VMul(a, b) == Only({Tup([i \in 1 .. Len(av) |-> FMul(av[i], bv[i])], Len(av)) : av \in {a}, bv \in {b}})
VTanh(a) == Only({Tup([i \in 1 .. Len(av) |-> Tanh(av[i])], Len(av)) : av \in {a}})
VSigmoid(a) == Only({Tup([i \in 1 .. Len(av) |-> Sigmoid(av[i])], Len(av)) : av \in {a}})

\* ------------------------------------------------------------------ layers
\* Dense: W x + b
DenseForward(d, x) == VAdd(MatVec(d.weights, x), d.bias)

\* Tanh activation, elementwise
TanhForward(x) == VTanh(x)

\* 1 - z, elementwise
OneMinus(z) == Only({Tup([i \in 1 .. Len(zv) |-> FSub(Unit, zv[i])], Len(zv)) : zv \in {z}})

\* The gates of a GRU step from the layer's tensors, its state h and input x.
GruR(g, h, x) == VSigmoid(VAdd(VAdd(MatVec(g.Wr, x), MatVec(g.Ur, h)), g.br))
GruZ(g, h, x) == VSigmoid(VAdd(VAdd(MatVec(g.Wz, x), MatVec(g.Uz, h)), g.bz))
GruN(g, h, x, r) == VTanh(VAdd(VAdd(MatVec(g.Wn, x), MatVec(g.Un, VMul(r, h))), g.bn))
\* (1 - z) n + z h
GruBlend(z, n, h) == VAdd(VMul(OneMinus(z), n), VMul(z, h))

\* GRU step: the new hidden state
GruForward(g, x) ==
    Only({GruBlend(GruZ(g, g.h, xv), GruN(g, g.h, xv, GruR(g, g.h, xv)), g.h) : xv \in {x}})

\* Model.forward: the scalar output and the hidden state it commits
Forward(m, input) ==
    Only({[y |-> DenseForward(m.denseOut, o3)[1], h |-> o3] :
            o3 \in {GruForward(m.gru, TanhForward(DenseForward(m.dense1, input)))}})

\* Model.reset: zero the GRU's hidden state, leave everything else
ModelReset(m) == [m EXCEPT !.gru.h = ZeroVec(NDims)]

\* ------------------------------------------------------------------- state
VARIABLES
    model,      \* MLUtils::Model: dense1, gru (with its hidden state h), denseOut
    rando,      \* LayerRandomiser: the state of its generator
    dcBlocker,  \* dsp::BiquadFilter: its input and output history
    out,        \* outputs[OUT1]: the voltage last emitted
    json,       \* the document last returned by dataToJson, held by the host
    saved,      \* the weights the model had when json was produced
    last,       \* the last operation with the values of its locals
    ops         \* number of operations performed so far

vars == <<model, rando, dcBlocker, out, json, saved, last, ops>>

LayerKeys == {"dense1", "gru", "denseOut"}
GruTensors == {"Wr", "Wz", "Wn", "Ur", "Uz", "Un", "br", "bz", "bn"}

\* The parameter tensors of the model: everything but the hidden state.
GruWeights(g) == [t \in GruTensors |-> g[t]]
Weights(m) == [dense1 |-> m.dense1, gru |-> GruWeights(m.gru), denseOut |-> m.denseOut]

\* -------------------------------------------------------------- randomiser
\* The n-th position of the generator's stream after position s.
Adv(s, n) == (s + n) % RngMod
\* The draw the generator yields at position s: uniform over [-1.0, 1.0].
DrawAt(s) == ((3 * s) % (2 * Unit + 1)) - Unit

RandVec(n, s) == Tup([i \in 1 .. n |-> DrawAt(Adv(s, i - 1))], n)
\* Rows are drawn one after the other.
RandMat(r, c, s) == Tup([i \in 1 .. r |-> RandVec(c, Adv(s, (i - 1) * c))], r)

RandomDenseWeights(d, s) ==
    [d EXCEPT !.weights = RandMat(Len(d.weights), Len(d.weights[1]), s)]
RandomDenseBias(d, s) == [d EXCEPT !.bias = RandVec(Len(d.bias), s)]
ZeroDenseBias(d) == [d EXCEPT !.bias = ZeroVec(Len(d.bias))]

\* Every weight and bias tensor of the GRU redrawn; h is not written.
RandomGru(g, s) ==
    LET n == NDims
        q == n * n
    IN  [g EXCEPT !.Wr = RandMat(n, n, s),
                  !.Wz = RandMat(n, n, Adv(s, q)),
                  !.Wn = RandMat(n, n, Adv(s, 2 * q)),
                  !.Ur = RandMat(n, n, Adv(s, 3 * q)),
                  !.Uz = RandMat(n, n, Adv(s, 4 * q)),
                  !.Un = RandMat(n, n, Adv(s, 5 * q)),
                  !.br = RandVec(n, Adv(s, 6 * q)),
                  !.bz = RandVec(n, Adv(s, 6 * q + n)),
                  !.bn = RandVec(n, Adv(s, 6 * q + 2 * n))]

DenseWeightDraws(d) == Len(d.weights) * Len(d.weights[1])
GruDraws == 6 * NDims * NDims + 3 * NDims

\* Variant: randomising also resets the model's state.
RandomiseModel_resetsState(m, s) ==
    LET s1 == Adv(s, DenseWeightDraws(m.dense1))
        s2 == Adv(s1, Len(m.dense1.bias))
        s3 == Adv(s2, GruDraws)
    IN  [m EXCEPT !.dense1 = RandomDenseBias(RandomDenseWeights(m.dense1, s), s1),
                  !.gru = [RandomGru(m.gru, s2) EXCEPT !.h = ZeroVec(NDims)],
                  !.denseOut = RandomDenseWeights(m.denseOut, s3)]

\* Variant: the output layer's bias is redrawn like the first layer's.
RandomiseModel_outBias(m, s) ==
    LET s1 == Adv(s, DenseWeightDraws(m.dense1))
        s2 == Adv(s1, Len(m.dense1.bias))
        s3 == Adv(s2, GruDraws)
        s4 == Adv(s3, DenseWeightDraws(m.denseOut))
    IN  [m EXCEPT !.dense1 = RandomDenseBias(RandomDenseWeights(m.dense1, s), s1),
                  !.gru = RandomGru(m.gru, s2),
                  !.denseOut = RandomDenseBias(RandomDenseWeights(m.denseOut, s3), s4)]

\* randomiseModel: layer 0 weights and bias, layer 2, layer 3 weights only.
RandomiseModel(m, s) ==
    LET s1 == Adv(s, DenseWeightDraws(m.dense1))
        s2 == Adv(s1, Len(m.dense1.bias))
        s3 == Adv(s2, GruDraws)
    IN  [m EXCEPT !.dense1 = RandomDenseBias(RandomDenseWeights(m.dense1, s), s1),
                  !.gru = RandomGru(m.gru, s2),
                  !.denseOut = RandomDenseWeights(m.denseOut, s3)]

\* The generator's position once randomiseModel has returned.
RandoAfter(m, s) ==
    Adv(s, DenseWeightDraws(m.dense1) + Len(m.dense1.bias) + GruDraws
           + DenseWeightDraws(m.denseOut))

\* -------------------------------------------------------------- serialiser
\* A matrix as the row-major sequence of its elements, and back.
Flatten(M) ==
    LET c == Len(M[1])
    IN  Tup([k \in 1 .. Len(M) * c |-> M[((k - 1) \div c) + 1][((k - 1) % c) + 1]],
            Len(M) * c)
Unflatten(r, c, data) ==
    Tup([i \in 1 .. r |-> Tup([j \in 1 .. c |-> data[(i - 1) * c + j]], c)], r)

MatToJson(M) == [shape |-> <<Len(M), Len(M[1])>>, data |-> Flatten(M)]
VecToJson(v) == [shape |-> <<Len(v)>>, data |-> v]

\* A field of a record read into a tensor of the same shape; a field that is
\* absent or has another element count leaves the tensor as it is.
JsonToMat(M, rec, f) ==
    IF f \in DOMAIN rec /\ Len(rec[f].data) = Len(M) * Len(M[1])
    THEN Unflatten(Len(M), Len(M[1]), rec[f].data)
    ELSE M
JsonToVec(v, rec, f) ==
    IF f \in DOMAIN rec /\ Len(rec[f].data) = Len(v) THEN rec[f].data ELSE v

DenseToJson(d) == [weights |-> MatToJson(d.weights), bias |-> VecToJson(d.bias)]
JsonToDense(d, rec) ==
    [weights |-> JsonToMat(d.weights, rec, "weights"),
     bias |-> JsonToVec(d.bias, rec, "bias")]

GruToJson(g) ==
    [t \in GruTensors |->
        IF t \in {"br", "bz", "bn"} THEN VecToJson(g[t]) ELSE MatToJson(g[t])]
\* The hidden state is no field of the record: load keeps it.
JsonToGru(g, rec) ==
    [t \in GruTensors \cup {"h"} |->
        IF t = "h" THEN g.h
        ELSE IF t \in {"br", "bz", "bn"} THEN JsonToVec(g[t], rec, t)
        ELSE JsonToMat(g[t], rec, t)]

\* dataToJson: one key per weight-bearing layer.
SaveModel(m) ==
    [dense1 |-> DenseToJson(m.dense1),
     gru |-> GruToJson(m.gru),
     denseOut |-> DenseToJson(m.denseOut)]

\* Variant: the recurrent layer is looked up under a key save never writes.
LoadModel_wrongKey(m, doc) ==
    [dense1 |-> IF "dense1" \in DOMAIN doc
                THEN JsonToDense(m.dense1, doc["dense1"]) ELSE m.dense1,
     gru |-> IF "GRU" \in DOMAIN doc
             THEN JsonToGru(m.gru, doc["GRU"]) ELSE m.gru,
     denseOut |-> IF "denseOut" \in DOMAIN doc
                  THEN JsonToDense(m.denseOut, doc["denseOut"]) ELSE m.denseOut]

\* Variant: the output layer is read only inside the recurrent key's branch.
LoadModel_chained(m, doc) ==
    [dense1 |-> IF "dense1" \in DOMAIN doc
                THEN JsonToDense(m.dense1, doc["dense1"]) ELSE m.dense1,
     gru |-> IF "gru" \in DOMAIN doc
             THEN JsonToGru(m.gru, doc["gru"]) ELSE m.gru,
     denseOut |-> IF "gru" \in DOMAIN doc /\ "denseOut" \in DOMAIN doc
                  THEN JsonToDense(m.denseOut, doc["denseOut"]) ELSE m.denseOut]

\* dataFromJson: each layer whose key the document holds is read from it.
LoadModel(m, doc) ==
    [dense1 |-> IF "dense1" \in DOMAIN doc
                THEN JsonToDense(m.dense1, doc["dense1"]) ELSE m.dense1,
     gru |-> IF "gru" \in DOMAIN doc
             THEN JsonToGru(m.gru, doc["gru"]) ELSE m.gru,
     denseOut |-> IF "denseOut" \in DOMAIN doc
                  THEN JsonToDense(m.denseOut, doc["denseOut"]) ELSE m.denseOut]

\* --------------------------------------------------------------- DC blocker
\* setParameters(HIGHPASS, ...): the numerator (1, -2, 1) * norm and the
\* denominator of a highpass biquad, in half steps: zero gain at DC.
BiquadB == <<Unit \div 2, 0 - Unit, Unit \div 2>>
BiquadA == <<0, 0>>

\* process(in): direct form I; the output and the shifted histories.
BiquadProcess(f, in) ==
    LET acc0 == FMul(BiquadB[1], in)
        acc1 == FAdd(acc0, FMul(BiquadB[2], f.x[1]))
        acc2 == FAdd(acc1, FMul(BiquadB[3], f.x[2]))
        acc3 == FSub(acc2, FMul(BiquadA[1], f.y[1]))
        acc4 == FSub(acc3, FMul(BiquadA[2], f.y[2]))
    IN  [out |-> acc4, state |-> [x |-> <<in, f.x[1]>>, y |-> <<acc4, f.y[1]>>]]

\* ------------------------------------------------------------ process steps
\* Variant: the parameter is compared with a threshold.
ShouldRandomise_threshold(v) == v >= Unit

\* if(params[RANDOM_PARAM].getValue())
ShouldRandomise(v) == v # 0

\* if (std::isnan(y))
IsUnstable(y) == IsNan(y)

\* Variant: recovery also silences the output layer.
InstabilityGuard_mutesOutput(m, y) ==
    IF IsUnstable(y)
    THEN ModelReset([m EXCEPT !.denseOut.weights = FillMat(1, NDims, 0)])
    ELSE m

\* The guard: an unstable output is replaced by 0 and the model is reset.
GuardedSample(y) == IF IsUnstable(y) THEN 0 ELSE y
InstabilityGuard(m, y) == IF IsUnstable(y) THEN ModelReset(m) ELSE m

\* Variant: the connection count is not floored.
MakeupDivisor_noFloor(n) == n

\* std::max(numConnected, 1)
MakeupDivisor(n) == IF n > 1 THEN n ELSE 1

\* 4.0f / (float) divisor
MakeupGain(n) == FDiv(4 * Unit, MakeupDivisor(n) * Unit)

\* ------------------------------------------------------------------ inputs
\* Values of the Randomise parameter (0.0 .. 1.0): off, and half way on.
TrigVals == {0, Unit \div 2}
\* The sets of connected input ports: the first n, for n = 0 .. NUM_INPUTS.
ConnSets == {1 .. n : n \in 0 .. NUM_INPUTS}
\* The voltage on a connected port; an unconnected port reads 0.
InputVolt == Unit
InputOf(conn) ==
    Tup([i \in 1 .. NUM_INPUTS |-> IF i \in conn THEN InputVolt ELSE 0], NUM_INPUTS)

\* Weights a layer may hold after construction.
InitFills == {0, Unit}

EmptyDoc == [k \in {} |-> 0]
Restrict(doc, K) == [k \in (K \cap DOMAIN doc) |-> doc[k]]

\* A network forced to diverge: after a first call leaves h at 1.0, the reset
\* gate sums +infinity and -infinity.
DivergeModel ==
    LET F == FltMax
        n == NDims
    IN  [dense1 |-> [weights |-> FillMat(n, n, 0), bias |-> FillVec(n, F)],
         gru |-> [Wr |-> FillMat(n, n, F), Ur |-> FillMat(n, n, 0 - F),
                  Wz |-> FillMat(n, n, 0 - F), Uz |-> FillMat(n, n, 0),
                  Wn |-> FillMat(n, n, F), Un |-> FillMat(n, n, 0),
                  br |-> ZeroVec(n), bz |-> ZeroVec(n), bn |-> ZeroVec(n),
                  h |-> ZeroVec(n)],
         denseOut |-> [weights |-> FillMat(1, n, Unit), bias |-> ZeroVec(1)]]
\* The same with an output layer that overflows.
LoudModel ==
    [DivergeModel EXCEPT !.denseOut = [weights |-> FillMat(1, NDims, FltMax),
                                       bias |-> FillVec(1, Unit)]]

\* The documents the host may hand to dataFromJson.
DivergeDoc == SaveModel(DivergeModel)
LoudDoc == SaveModel(LoudModel)
Docs == {Restrict(json, K) : K \in SUBSET LayerKeys} \cup {DivergeDoc, LoudDoc}

\* ------------------------------------------------------------------ actions
\* The record of an operation: what it was called with and what it computed.
\* before and hIn are the weights and the hidden state at its entry.
Event(op) ==
    [op |-> op, before |-> Weights(model), hIn |-> model.gru.h,
     trig |-> 0, input |-> ZeroVec(NUM_INPUTS), numConnected |-> 0,
     randomised |-> FALSE, hRand |-> model.gru.h,
     y |-> 0, unstable |-> FALSE, filterIn |-> 0, divisor |-> 1, gain |-> 0,
     doc |-> EmptyDoc]

\* The constructor: four layers, model.reset(), zeroDenseBias on the last.
Init ==
    /\ \E f \in InitFills :
         model = ModelReset(
            [dense1 |-> [weights |-> FillMat(NDims, NDims, f), bias |-> FillVec(NDims, f)],
             gru |-> [t \in GruTensors \cup {"h"} |->
                        IF t \in {"br", "bz", "bn", "h"} THEN FillVec(NDims, f)
                        ELSE FillMat(NDims, NDims, f)],
             denseOut |-> ZeroDenseBias([weights |-> FillMat(1, NDims, f),
                                         bias |-> FillVec(1, f)])])
    /\ rando \in 0 .. RngMod - 1
    /\ dcBlocker = [x |-> <<0, 0>>, y |-> <<0, 0>>]
    /\ out = 0
    /\ json = EmptyDoc
    /\ saved = Weights(model)
    /\ last = Event("init")
    /\ ops = 0

\* process(args): randomise if needed, forward, guard, DC blocker, makeup gain.
\* m1 is the model once the randomisation step is over, fwd the result of
\* model.forward on it, y1 the sample handed to the DC blocker.
Process(trig, conn) ==
    /\ ops < MaxOps
    /\ \E m1 \in {IF ShouldRandomise(trig) THEN RandomiseModel(model, rando) ELSE model} :
       \E fwd \in {Forward(m1, InputOf(conn))} :
       \E y1 \in {GuardedSample(fwd.y)} :
       \E flt \in {BiquadProcess(dcBlocker, y1)} :
         /\ model' = InstabilityGuard([m1 EXCEPT !.gru.h = fwd.h], fwd.y)
         /\ rando' = IF ShouldRandomise(trig) THEN RandoAfter(model, rando) ELSE rando
         /\ dcBlocker' = flt.state
         /\ out' = FMul(flt.out, MakeupGain(Cardinality(conn)))
         /\ last' = [Event("process") EXCEPT
                        !.trig = trig, !.input = InputOf(conn),
                        !.numConnected = Cardinality(conn),
                        !.randomised = ShouldRandomise(trig),
                        !.hRand = m1.gru.h, !.y = fwd.y,
                        !.unstable = IsUnstable(fwd.y), !.filterIn = y1,
                        !.divisor = MakeupDivisor(Cardinality(conn)),
                        !.gain = MakeupGain(Cardinality(conn))]
    /\ ops' = ops + 1
    /\ UNCHANGED <<json, saved>>

\* Variant: onReset leaves the model as it is.
OnReset_skipped ==
    /\ ops < MaxOps
    /\ model' = model
    /\ last' = Event("reset")
    /\ ops' = ops + 1
    /\ UNCHANGED <<rando, dcBlocker, out, json, saved>>

\* onReset(): model.reset()
OnReset ==
    /\ ops < MaxOps
    /\ model' = ModelReset(model)
    /\ last' = Event("reset")
    /\ ops' = ops + 1
    /\ UNCHANGED <<rando, dcBlocker, out, json, saved>>

\* dataToJson(): the document goes to the host
DataToJson ==
    /\ ops < MaxOps
    /\ json' = SaveModel(model)
    /\ saved' = Weights(model)
    /\ last' = Event("save")
    /\ ops' = ops + 1
    /\ UNCHANGED <<model, rando, dcBlocker, out>>

\* dataFromJson(doc)
DataFromJson(doc) ==
    /\ ops < MaxOps
    /\ model' = LoadModel(model, doc)
    /\ last' = [Event("load") EXCEPT !.doc = doc]
    /\ ops' = ops + 1
    /\ UNCHANGED <<rando, dcBlocker, out, json, saved>>

Next ==
    \/ \E trig \in TrigVals, conn \in ConnSets : Process(trig, conn)
    \/ OnReset
    \/ DataToJson
    \/ \E doc \in Docs : DataFromJson(doc)

Spec == Init /\ [][Next]_vars

\* ------------------------------------------------------------------ claims
h == model.gru.h
ZeroH == ZeroVec(NDims)

\* C1 (as stated): in every process call, a forward result that is not finite
\* (NaN, +infinity, -infinity) is replaced by 0 and the model is reset before
\* the DC blocker runs, so the DC blocker is only ever handed finite values.
C1_GuardCatchesNonFinite ==
    last.op = "process" =>
        /\ IsFinite(last.filterIn)
        /\ (~IsFinite(last.y) => last.filterIn = 0 /\ h = ZeroH)

\* C2 (as stated): in a process call whose forward result is not finite, the
\* emitted sample is 0 and the hidden state is zero on return, whatever the
\* DC blocker's history and the number of connected inputs.
C2_UnstableEmitsZero ==
    (last.op = "process" /\ ~IsFinite(last.y)) => (out = 0 /\ h = ZeroH)

\* C3: loading the document saved from a model restores every weight tensor
\* of the three layers: in any state load(save(model)) is the model itself,
\* save writes exactly the three layer keys, and a load of the host's saved
\* document leaves the weights the model had when it was saved.
C3_RoundTrip ==
    /\ LoadModel(model, SaveModel(model)) = model
    /\ DOMAIN SaveModel(model) = LayerKeys
    /\ (last.op = "load" /\ last.doc = json /\ json # EmptyDoc)
          => Weights(model) = saved
C3_Witness ==
    /\ last.op = "load" /\ last.doc = json /\ json # EmptyDoc
    /\ last.before # saved
    /\ Weights(model) = saved

\* C4: a load overwrites exactly the layers whose key the document holds and
\* leaves every other layer's weights as they were, for every subset of keys.
C4_PartialLoad ==
    last.op = "load" =>
        \A k \in LayerKeys :
            IF k \in DOMAIN last.doc
            THEN SaveModel(model)[k] = last.doc[k]
            ELSE Weights(model)[k] = last.before[k]
C4_Witness ==
    /\ last.op = "load"
    /\ DOMAIN last.doc = {"dense1", "denseOut"}
    /\ Weights(model).dense1 # last.before.dense1
    /\ Weights(model).denseOut # last.before.denseOut
    /\ Weights(model).gru = last.before.gru

\* C5: the makeup gain's divisor is max(n, 1) >= 1 for every number n of
\* connected inputs, the gain is 4 / max(n, 1), finite, and no connected
\* input gives the gain of one connected input.
C5_MakeupGain ==
    last.op = "process" =>
        /\ last.divisor >= 1
        /\ last.divisor = (IF last.numConnected > 1 THEN last.numConnected ELSE 1)
        /\ last.gain = FDiv(4 * Unit, last.divisor * Unit)
        /\ IsFinite(last.gain)
        /\ (last.numConnected = 0 => last.gain = MakeupGain(1))
C5_Witness == last.op = "process" /\ last.numConnected = 0 /\ last.gain = 4 * Unit

\* C6: randomisation leaves the hidden state alone: the state right after
\* the randomisation step of a process call is the state at the call's entry,
\* and randomiseModel applied in any state keeps h.
C6_RandomiseKeepsState ==
    /\ RandomiseModel(model, rando).gru.h = h
    /\ (last.op = "process" => last.hRand = last.hIn)
C6_Witness ==
    last.op = "process" /\ last.randomised /\ last.hIn # ZeroH /\ last.hRand = last.hIn

\* C7: after onReset the hidden state is the zero vector, and the forward of
\* the next process call is the forward of the current weights on the current
\* input from the zero state.
C7_ResetLaw ==
    [][/\ last'.op = "reset" => model'.gru.h = ZeroH
       /\ (last.op = "reset" /\ last'.op = "process")
             => \A m \in {[model' EXCEPT !.gru.h = ZeroH]} :
                    last'.y = Forward(m, last'.input).y]_vars
C7_Witness == last.op = "reset" /\ last.hIn # ZeroH /\ h = ZeroH

\* C8: a process call randomises the weights exactly when the trigger value
\* it read is non-zero, and its forward pass runs on the weights the call
\* leaves behind (the new ones when it randomised) from the entry state.
C8_TriggerThenForward ==
    [][last'.op = "process" =>
        /\ last'.randomised <=> last'.trig # 0
        /\ Weights(model') = IF last'.trig # 0
                             THEN Weights(RandomiseModel(model, rando))
                             ELSE Weights(model)
        /\ \A m \in {[model' EXCEPT !.gru.h = model.gru.h]} :
              last'.y = Forward(m, last'.input).y]_vars
C8_Witness ==
    /\ last.op = "process" /\ last.trig = Unit \div 2 /\ last.randomised
    /\ Weights(model) # last.before
    /\ last.y # 0

\* C9: a process call with an inactive trigger (the guard firing or not), a
\* reset and a save leave every weight and bias of the three layers unchanged.
C9_WeightsFrame ==
    (last.op \in {"reset", "save"} \/ (last.op = "process" /\ last.trig = 0))
        => Weights(model) = last.before
C9_Witness ==
    last.op = "process" /\ last.trig = 0 /\ last.unstable /\ h = ZeroH /\ last.hIn # ZeroH

\* C10: the output layer's bias is zero after construction and no operation
\* but a load changes it.
C10_OutputBiasZero ==
    /\ last.op = "init" => model.denseOut.bias = ZeroVec(1)
    /\ last.op # "load" => model.denseOut.bias = last.before.denseOut.bias
C10_Witness ==
    /\ last.op = "process" /\ last.randomised
    /\ model.denseOut.weights # last.before.denseOut.weights
    /\ model.denseOut.bias = ZeroVec(1)

\* Reachability of the two kinds of unstable output.
ForwardGaveInfinity == last.op = "process" /\ IsInf(last.y)
ForwardGaveNaN == last.op = "process" /\ IsNan(last.y)

=============================================================================
